---- MODULE Spec2Model ----
(***************************************************************************)
(* Model of enrich_with_wikidata_pol.py: the helpers extract_viaf_id,      *)
(* normalize_title, sparql_query, first_qid, viaf_to_wikidata and          *)
(* title_to_wikidata as operators, and main's row loop as a state machine. *)
(*                                                                         *)
(* Text is a sequence of tokens.  A title is a sequence of one-character   *)
(* strings; a reference field is a sequence whose tokens are the literal   *)
(* pieces the regular expression of extract_viaf_id looks for              *)
(* ("viaf.org", "/viaf/", digits) and other characters.                    *)
(***************************************************************************)
EXTENDS Integers, Sequences, FiniteSets, TLC

VARIABLES df, pc, i, author_cache, work_cache, author_qids, work_qids, out, net,
          fn_in, fn_out

vars == <<df, pc, i, author_cache, work_cache, author_qids, work_qids, out, net,
          fn_in, fn_out>>

-----------------------------------------------------------------------------
(* Bounds *)

MaxRows == 2

MaxTitleLen == 3

MaxUrlLen == 4

-----------------------------------------------------------------------------
(* Values *)

\* Python's None, where the other values are strings (entity identifiers).
None == "None"

\* A DataFrame cell read with dtype=str: a string, or the float NaN of a missing value.
NaN == [isstr |-> FALSE, s |-> <<>>]

StrCell(s) == [isstr |-> TRUE, s |-> s]

\* str | None results whose string is a token sequence.
Absent == [some |-> FALSE, val |-> <<>>]

Some(v) == [some |-> TRUE, val |-> v]

Whitespace == {" ", "\t"}

Digits == {"1", "2"}

SeqsUpTo(S, n) == UNION {[1..k -> S] : k \in 0..n}

RECURSIVE LStrip(_, _)
LStrip(s, chars) ==
    IF s # <<>> /\ Head(s) \in chars THEN LStrip(Tail(s), chars) ELSE s

RECURSIVE RStrip(_, _)
RStrip(s, chars) ==
    IF s # <<>> /\ s[Len(s)] \in chars THEN RStrip(SubSeq(s, 1, Len(s) - 1), chars) ELSE s

\* str.strip(chars)
Strip(s, chars) == LStrip(RStrip(s, chars), chars)

-----------------------------------------------------------------------------
(* extract_viaf_id *)

\* Positions where r"viaf\.org/viaf/(\d+)" matches.
ViafMatchAt(s, k) ==
    /\ k + 2 <= Len(s)
    /\ s[k] = "viaf.org"
    /\ s[k + 1] = "/viaf/"
    /\ s[k + 2] \in Digits

RECURSIVE DigitRun(_, _)
DigitRun(s, k) ==
    IF k <= Len(s) /\ s[k] \in Digits THEN <<s[k]>> \o DigitRun(s, k + 1) ELSE <<>>

\* re.search: the leftmost match; group(1) is greedy.
ViafSearch(s) ==
    LET hits == {k \in 1..Len(s) : ViafMatchAt(s, k)}
    IN  IF hits = {} THEN Absent
        ELSE LET k == CHOOSE m \in hits : \A n \in hits : m <= n
             IN  Some(DigitRun(s, k + 2))

\* As extract_viaf_id, with re.match (anchored at the start) for re.search.
extract_viaf_id_match(url) ==
    IF ~url.isstr \/ Strip(url.s, Whitespace) \in {<<>>, <<"NA">>}
    THEN Absent
    ELSE IF ViafMatchAt(url.s, 1) THEN Some(DigitRun(url.s, 3)) ELSE Absent

extract_viaf_id(url) ==
    IF ~url.isstr \/ Strip(url.s, Whitespace) \in {<<>>, <<"NA">>}
    THEN Absent
    ELSE ViafSearch(url.s)

-----------------------------------------------------------------------------
(* normalize_title *)

Separators == {":", ";"}

\* re.split(r"\s*[:;]\s*", title)[0]: the text before the leftmost match, which
\* starts at the whitespace run that ends at the first separator.
SplitFirst(title) ==
    LET seps == {k \in 1..Len(title) : title[k] \in Separators}
    IN  IF seps = {} THEN title
        ELSE LET j == CHOOSE m \in seps : \A n \in seps : m <= n
             IN  RStrip(SubSeq(title, 1, j - 1), Whitespace)

normalize_title(title) == Strip(SplitFirst(title), {" ", ".", ","})

-----------------------------------------------------------------------------
(* The remote service, sparql_query, first_qid *)

QIDs == {"Q1", "Q2"}

\* The URI of an entity, by path segment.
EntityUri(q) == <<"http://www.wikidata.org", "entity", q>>

\* What one GET can come to: an exception inside the try block (connection error,
\* timeout, raise_for_status, a body that does not decode to results.bindings), or
\* the bindings of a LIMIT 1 query.
Responses ==
    {[ok |-> FALSE, bindings |-> <<>>], [ok |-> TRUE, bindings |-> <<>>]}
        \cup {[ok |-> TRUE, bindings |-> <<EntityUri(q)>>] : q \in QIDs}

sparql_query(resp) == IF resp.ok THEN resp.bindings ELSE <<>>

\* uri.rsplit("/", 1)[-1] of the first binding
first_qid(bindings) ==
    IF bindings # <<>> THEN bindings[1][Len(bindings[1])] ELSE None

\* One request as the service sees it, with what came of it.
Call(kind, label, author, resp) ==
    [kind |-> kind, label |-> label, author |-> author, ok |-> resp.ok,
     qid |-> first_qid(sparql_query(resp))]

viaf_to_wikidata(viaf_id, resp) ==
    [result |-> first_qid(sparql_query(resp)),
     calls |-> <<Call("P214", viaf_id, None, resp)>>]

-----------------------------------------------------------------------------
(* title_to_wikidata *)

\* title.replace('"', '\\"')
RECURSIVE Escape(_)
Escape(s) ==
    IF s = <<>> THEN <<>>
    ELSE (IF Head(s) = "\"" THEN <<"\\", "\"">> ELSE <<Head(s)>>) \o Escape(Tail(s))

\* The truth value of a str | None.
Truthy(q) == q # None /\ q # ""

\* As title_to_wikidata, without the retry on the full title.
title_to_wikidata_nofull(title, author_qid, r1, r2, r3) ==
    LET escaped == Escape(normalize_title(title))
        c1 == Call("label+P50", escaped, author_qid, r1)
        c2 == Call("label+type", escaped, None, r2)
    IN  IF Truthy(author_qid) /\ Truthy(c1.qid)
        THEN [result |-> c1.qid, calls |-> <<c1>>]
        ELSE [result |-> c2.qid,
              calls |-> (IF Truthy(author_qid) THEN <<c1>> ELSE <<>>) \o <<c2>>]

\* As title_to_wikidata, with the type-scoped query before the author-constrained one.
title_to_wikidata_broad(title, author_qid, r1, r2, r3) ==
    LET escaped == Escape(normalize_title(title))
        full_escaped == Escape(title)
        c1 == Call("label+P50", escaped, author_qid, r1)
        c2 == Call("label+type", escaped, None, r2)
        c3 == Call("label+type", full_escaped, None, r3)
        first == IF Truthy(author_qid) THEN <<c1>> ELSE <<>>
    IN  IF Truthy(c2.qid)
        THEN [result |-> c2.qid, calls |-> <<c2>>]
        ELSE IF Truthy(author_qid) /\ Truthy(c1.qid)
        THEN [result |-> c1.qid, calls |-> <<c2, c1>>]
        ELSE IF full_escaped # escaped
        THEN [result |-> c3.qid, calls |-> <<c2>> \o first \o <<c3>>]
        ELSE [result |-> c2.qid, calls |-> <<c2>> \o first]

\* r1, r2, r3: what the service answers to the author-constrained query, to the
\* type-scoped query on the short title and to the one on the full title, if asked.
title_to_wikidata(title, author_qid, r1, r2, r3) ==
    LET short_title == normalize_title(title)
        escaped == Escape(short_title)
        full_escaped == Escape(title)
        c1 == Call("label+P50", escaped, author_qid, r1)
        c2 == Call("label+type", escaped, None, r2)
        c3 == Call("label+type", full_escaped, None, r3)
        first == IF Truthy(author_qid) THEN <<c1>> ELSE <<>>
    IN  IF Truthy(author_qid) /\ Truthy(c1.qid)
        THEN [result |-> c1.qid, calls |-> <<c1>>]
        ELSE IF Truthy(c2.qid)
        THEN [result |-> c2.qid, calls |-> first \o <<c2>>]
        ELSE IF full_escaped # escaped
        THEN [result |-> c3.qid, calls |-> first \o <<c2, c3>>]
        ELSE [result |-> c2.qid, calls |-> first \o <<c2>>]

-----------------------------------------------------------------------------
(* main: the input *)

ViafUrl(digits) == <<"viaf.org", "/viaf/">> \o digits

\* The cells the rows are drawn from.  pandas reads an empty or "NA" field as NaN.
AuthorIdCells ==
    {NaN, StrCell(ViafUrl(<<"1">>) \o <<"/">>), StrCell(ViafUrl(<<"2">>))}

TitleIdCells == {NaN, StrCell(ViafUrl(<<"1">>) \o <<"/">>)}

TitleCells == {NaN, StrCell(<<"a", ":", " ", "b">>)}

\* A row's columns (author-name is only printed).  The rows with a work reference
\* carry the title with a subtitle, the one with the longest title chain.
Rows ==
    {r \in [author_ids : AuthorIdCells, title_ids : TitleIdCells, title : TitleCells] :
        r.title_ids.isstr => r.title = StrCell(<<"a", ":", " ", "b">>)}

\* The graph of a run holds at most one entity per query: what a GET for it can
\* come to is an exception, no binding, or that entity.
Answers(q) ==
    {[ok |-> FALSE, bindings |-> <<>>], [ok |-> TRUE, bindings |-> <<>>],
     [ok |-> TRUE, bindings |-> <<EntityUri(q)>>]}

\* The person with a VIAF identifier.
PersonOf(viaf_id) == IF viaf_id = <<"1">> THEN "Q1" ELSE "Q2"

\* The work with a VIAF identifier, the work with a label and a creator, the
\* written works with the short and with the full label.
WorkOfViaf == "Q3"

WorkOfCreator == "Q4"

WorkOfShortLabel == "Q5"

WorkOfFullLabel == "Q6"

\* str(cell)
Str(cell) == IF cell.isstr THEN cell.s ELSE <<"n", "a", "n">>

-----------------------------------------------------------------------------
(* main: the row loop *)

NoCall == [kind |-> "", label |-> <<>>, author |-> None, ok |-> TRUE, qid |-> None]

\* What the service and the clock see of a lookup made for row i under a key:
\* its requests in order, then time.sleep(DELAY).
Traffic(key, calls) ==
    [k \in 1..Len(calls) |-> [op |-> "query", row |-> i, key |-> key, call |-> calls[k]]]
        \o <<[op |-> "sleep", row |-> i, key |-> key, call |-> NoCall]>>

\* No cache: every occurrence is looked up.
NeedsLookup_always(cache, key) == TRUE

\* cache.get(key) is None: an absent result is looked up again.
NeedsLookup_retry(cache, key) == key \notin DOMAIN cache \/ cache[key] = None

\* key not in cache
NeedsLookup(cache, key) == key \notin DOMAIN cache

\* The author_qid of the row being processed (appended last).
author_qid == author_qids[Len(author_qids)]

\* The work reference and the title of the row being processed.
work_viaf == extract_viaf_id(df[i].title_ids)

title == Strip(Str(df[i].title), Whitespace)

\* A key per title and author.
title_cache_key_author(t) == <<"title", t \o <<author_qid>>>>

\* f"title:{title}"
title_cache_key(t) == <<"title", t>>

\* f"viaf:{work_viaf}"
viaf_cache_key(v) == <<"viaf", v>>

\* for i, row in df.iterrows(): one more row
MoreRows == pc = "loop" /\ i <= Len(df)

\* if work_viaf:
ByViaf == pc = "work" /\ work_viaf.some

\* elif title and title != "nan":
ByTitle == pc = "work" /\ ~work_viaf.some /\ title # <<>> /\ title # <<"n", "a", "n">>

\* else:
ByNothing == pc = "work" /\ ~work_viaf.some /\ ~(title # <<>> /\ title # <<"n", "a", "n">>)

\* the loop is over
NoMoreRows == pc = "loop" /\ i > Len(df)

\* Lines 146-153: the author of row i.
Author ==
    /\ MoreRows
    /\ LET author_viaf == extract_viaf_id(df[i].author_ids)
       IN  IF author_viaf.some /\ NeedsLookup(author_cache, author_viaf.val)
           THEN \E resp \in Answers(PersonOf(author_viaf.val)) :
                    LET r == viaf_to_wikidata(author_viaf.val, resp)
                    IN  /\ author_cache' = (author_viaf.val :> r.result) @@ author_cache
                        /\ net' = net \o Traffic(<<"author", author_viaf.val>>, r.calls)
                        /\ author_qids' = Append(author_qids, r.result)
           ELSE /\ author_qids' = Append(author_qids,
                        IF author_viaf.some THEN author_cache[author_viaf.val] ELSE None)
                /\ UNCHANGED <<author_cache, net>>
    /\ pc' = "work"
    /\ UNCHANGED <<df, i, work_cache, work_qids, out, fn_in, fn_out>>

\* As WorkViaf, going on to the title search when the identifier finds nothing.
WorkViaf_fallback ==
    /\ ByViaf
    /\ LET cache_key == viaf_cache_key(work_viaf.val)
       IN  IF NeedsLookup(work_cache, cache_key)
           THEN \E resp \in Answers(WorkOfViaf), r1 \in Answers(WorkOfCreator),
                       r2 \in Answers(WorkOfShortLabel), r3 \in Answers(WorkOfFullLabel) :
                    LET r == viaf_to_wikidata(work_viaf.val, resp)
                        t == title_to_wikidata(title, author_qid, r1, r2, r3)
                        res == IF Truthy(r.result) THEN r
                               ELSE [result |-> t.result, calls |-> r.calls \o t.calls]
                    IN  /\ work_cache' = (cache_key :> res.result) @@ work_cache
                        /\ net' = net \o Traffic(cache_key, res.calls)
                        /\ work_qids' = Append(work_qids, res.result)
           ELSE /\ work_qids' = Append(work_qids, work_cache[cache_key])
                /\ UNCHANGED <<work_cache, net>>
    /\ i' = i + 1
    /\ pc' = "loop"
    /\ UNCHANGED <<df, author_cache, author_qids, out, fn_in, fn_out>>

\* Lines 159-166: the work by its external identifier.
WorkViaf ==
    /\ ByViaf
    /\ LET cache_key == viaf_cache_key(work_viaf.val)
       IN  IF NeedsLookup(work_cache, cache_key)
           THEN \E resp \in Answers(WorkOfViaf) :
                    LET r == viaf_to_wikidata(work_viaf.val, resp)
                    IN  /\ work_cache' = (cache_key :> r.result) @@ work_cache
                        /\ net' = net \o Traffic(cache_key, r.calls)
                        /\ work_qids' = Append(work_qids, r.result)
           ELSE /\ work_qids' = Append(work_qids, work_cache[cache_key])
                /\ UNCHANGED <<work_cache, net>>
    /\ i' = i + 1
    /\ pc' = "loop"
    /\ UNCHANGED <<df, author_cache, author_qids, out, fn_in, fn_out>>

\* Lines 168-175: the work by its title.
WorkTitle ==
    /\ ByTitle
    /\ LET cache_key == title_cache_key(title)
       IN  IF NeedsLookup(work_cache, cache_key)
           THEN \E r1 \in Answers(WorkOfCreator), r2 \in Answers(WorkOfShortLabel),
                       r3 \in Answers(WorkOfFullLabel) :
                    LET r == title_to_wikidata(title, author_qid, r1, r2, r3)
                    IN  /\ work_cache' = (cache_key :> r.result) @@ work_cache
                        /\ net' = net \o Traffic(cache_key, r.calls)
                        /\ work_qids' = Append(work_qids, r.result)
           ELSE /\ work_qids' = Append(work_qids, work_cache[cache_key])
                /\ UNCHANGED <<work_cache, net>>
    /\ i' = i + 1
    /\ pc' = "loop"
    /\ UNCHANGED <<df, author_cache, author_qids, out, fn_in, fn_out>>

\* As WorkNone, appending nothing.
WorkNone_skip ==
    /\ ByNothing
    /\ i' = i + 1
    /\ pc' = "loop"
    /\ UNCHANGED <<df, author_cache, work_cache, author_qids, work_qids, out, net,
                   fn_in, fn_out>>

\* Lines 177-178: no work reference and no title.
WorkNone ==
    /\ ByNothing
    /\ work_qids' = Append(work_qids, None)
    /\ i' = i + 1
    /\ pc' = "loop"
    /\ UNCHANGED <<df, author_cache, work_cache, author_qids, out, net, fn_in, fn_out>>

\* df[column] = list raises ValueError unless the list has one entry per row;
\* then to_csv writes the frame.
Finish ==
    /\ NoMoreRows
    /\ IF Len(author_qids) = Len(df) /\ Len(work_qids) = Len(df)
       THEN /\ out' = [k \in 1..Len(df) |->
                          [row |-> df[k],
                           author_wikidata_id |-> author_qids[k],
                           work_wikidata_id |-> work_qids[k]]]
            /\ pc' = "done"
       ELSE /\ out' = out
            /\ pc' = "error"
    /\ UNCHANGED <<df, i, author_cache, work_cache, author_qids, work_qids, net,
                   fn_in, fn_out>>

Init ==
    /\ df \in SeqsUpTo(Rows, MaxRows)
    /\ pc = "loop"
    /\ i = 1
    /\ author_cache = <<>>
    /\ work_cache = <<>>
    /\ author_qids = <<>>
    /\ work_qids = <<>>
    /\ out = <<>>
    /\ net = <<>>
    /\ fn_in = <<>>
    /\ fn_out = <<>>

Next == Author \/ WorkViaf \/ WorkTitle \/ WorkNone \/ Finish

Spec == Init /\ [][Next]_vars

-----------------------------------------------------------------------------
(* extract_viaf_id on its own: every reference text up to MaxUrlLen tokens *)

UrlAlphabet == {"viaf.org", "/viaf/", "1", "2", "/", " ", "NA", "x"}

ExtractInputs == {NaN} \cup {StrCell(s) : s \in SeqsUpTo(UrlAlphabet, MaxUrlLen)}

Idle ==
    /\ df = <<>>
    /\ i = 1
    /\ author_cache = <<>>
    /\ work_cache = <<>>
    /\ author_qids = <<>>
    /\ work_qids = <<>>
    /\ out = <<>>
    /\ net = <<>>

InitExtract ==
    /\ Idle
    /\ pc = "call"
    /\ fn_in \in ExtractInputs
    /\ fn_out = Absent

CallExtract ==
    /\ pc = "call"
    /\ fn_out' = extract_viaf_id(fn_in)
    /\ pc' = "returned"
    /\ UNCHANGED <<fn_in, df, i, author_cache, work_cache, author_qids, work_qids, out, net>>

SpecExtract == InitExtract /\ [][CallExtract]_vars

-----------------------------------------------------------------------------
(* normalize_title on its own: every title up to MaxTitleLen characters *)

TitleAlphabet == {"a", " ", ".", ",", ":", ";", "\""}

Titles == SeqsUpTo(TitleAlphabet, MaxTitleLen)

InitNormalize ==
    /\ Idle
    /\ pc = "call"
    /\ fn_in \in Titles
    /\ fn_out = <<>>

CallNormalize ==
    /\ pc = "call"
    /\ fn_out' = normalize_title(fn_in)
    /\ pc' = "returned"
    /\ UNCHANGED <<fn_in, df, i, author_cache, work_cache, author_qids, work_qids, out, net>>

SpecNormalize == InitNormalize /\ [][CallNormalize]_vars

-----------------------------------------------------------------------------
(* title_to_wikidata on its own: every title, author and answers of the service *)

InitTitle ==
    /\ Idle
    /\ pc = "call"
    /\ fn_in \in [title : Titles, author_qid : {None, "Q1"}]
    /\ fn_out = <<>>

\* fn_out keeps the answers the service had for the three queries, asked or not.
CallTitle ==
    /\ pc = "call"
    /\ \E r1, r2, r3 \in Responses :
          fn_out' = [ret |-> title_to_wikidata(fn_in.title, fn_in.author_qid, r1, r2, r3),
                     creator |-> first_qid(sparql_query(r1)),
                     short |-> first_qid(sparql_query(r2)),
                     full |-> first_qid(sparql_query(r3))]
    /\ pc' = "returned"
    /\ UNCHANGED <<fn_in, df, i, author_cache, work_cache, author_qids, work_qids, out, net>>

SpecTitle == InitTitle /\ [][CallTitle]_vars

-----------------------------------------------------------------------------
(* What the rows ask for, in the words of the claims *)

RowAuthor(n) == extract_viaf_id(df[n].author_ids)

RowWorkViaf(n) == extract_viaf_id(df[n].title_ids)

RowTitle(n) == Strip(Str(df[n].title), Whitespace)

\* The row has no work reference and a title that is not the missing-value text.
TitleKeyed(n) ==
    ~RowWorkViaf(n).some /\ RowTitle(n) # <<>> /\ RowTitle(n) # <<"n", "a", "n">>

AuthorKeysOf(n) == IF RowAuthor(n).some THEN {<<"author", RowAuthor(n).val>>} ELSE {}

WorkKeysOf(n) ==
    IF RowWorkViaf(n).some THEN {<<"viaf", RowWorkViaf(n).val>>}
    ELSE IF TitleKeyed(n) THEN {<<"title", RowTitle(n)>>}
    ELSE {}

\* The rows whose author part, and whose work part, the loop has been through.
AuthorRows == 1..Len(author_qids)

WorkRows == 1..Len(work_qids)

KeysAt(n) ==
    (IF n \in AuthorRows THEN AuthorKeysOf(n) ELSE {})
        \cup (IF n \in WorkRows THEN WorkKeysOf(n) ELSE {})

LookupKeys == UNION {KeysAt(n) : n \in 1..Len(df)}

QueryEvents == {k \in 1..Len(net) : net[k].op = "query"}

SleepEvents == {k \in 1..Len(net) : net[k].op = "sleep"}

QueriesOf(key) == {k \in QueryEvents : net[k].key = key}

TitleKinds == {"label+P50", "label+type"}

\* The first identifier found by the requests made under a key, in their order.
FoundUnder(key) ==
    LET hits == {k \in QueriesOf(key) : net[k].call.qid # None}
    IN  IF hits = {} THEN None
        ELSE net[CHOOSE k \in hits : \A m \in hits : k <= m].call.qid

-----------------------------------------------------------------------------
(* C1 *)

\* C1, as stated: when the run is over, the number of remote queries issued equals
\* the number of distinct author identifiers plus distinct work lookup keys.
C1_QueriesEqualKeys ==
    pc = "done" => Cardinality(QueryEvents) = Cardinality(LookupKeys)

\* C1, amended: every distinct identifier or key is looked up exactly once, at the
\* first row it occurs in, and never again (also when what was cached is absent); a
\* lookup by external identifier is one remote query, a lookup by title is one to
\* three.
C1_OneLookupPerKey ==
    \A n \in 1..Len(df) :
        LET keys == KeysAt(n)
            asked == {net[k].key : k \in {j \in 1..Len(net) : net[j].row = n}}
        IN  /\ asked \subseteq keys
            /\ \A m \in 1..(n - 1) : asked \cap KeysAt(m) = {}
            /\ \A key \in keys :
                  LET sent == Cardinality({k \in 1..Len(net) :
                                             net[k].op = "query" /\ net[k].key = key})
                  IN  /\ Cardinality({k \in 1..Len(net) :
                                         net[k].op = "sleep" /\ net[k].key = key}) = 1
                      /\ IF key[1] = "title" THEN sent \in 1..3 ELSE sent = 1

\* Two rows with one title, the first looked up with three queries that found
\* nothing, the second served from the cache.
C1_Witness ==
    /\ pc = "done"
    /\ Len(df) = 2
    /\ TitleKeyed(1) /\ TitleKeyed(2) /\ RowTitle(1) = RowTitle(2)
    /\ work_qids = <<None, None>>
    /\ Cardinality(QueriesOf(<<"title", RowTitle(1)>>)) = 3

-----------------------------------------------------------------------------
(* C2 *)

\* C2, as stated: every remote query is followed by the pause before the next one,
\* and a row that sends no query does not pause.
C2_PauseAfterEveryQuery ==
    /\ \A k \in QueryEvents : k < Len(net) /\ net[k + 1].op = "sleep"
    /\ \A n \in 1..Len(df) :
          (\A k \in QueryEvents : net[k].row # n) => (\A k \in SleepEvents : net[k].row # n)

-----------------------------------------------------------------------------
(* C3 *)

\* C3: a row with a work external identifier gets, as its work entity, what the
\* external-identifier query for it answered (absent included), and no
\* title-matching query is sent for that row.
C3_ViafPrecedence ==
    \A n \in WorkRows :
        RowWorkViaf(n).some =>
            LET key == <<"viaf", RowWorkViaf(n).val>>
            IN  /\ \A k \in QueryEvents : net[k].row = n => net[k].call.kind = "P214"
                /\ \E k \in QueriesOf(key) :
                      /\ net[k].call.kind = "P214"
                      /\ net[k].call.label = RowWorkViaf(n).val
                      /\ work_qids[n] = net[k].call.qid

\* A row with a work reference and a title whose external-identifier query found
\* nothing.
C3_Witness ==
    /\ pc = "done"
    /\ \E n \in 1..Len(df) :
          /\ RowWorkViaf(n).some
          /\ RowTitle(n) = <<"a", ":", " ", "b">>
          /\ author_qids[n] # None
          /\ work_qids[n] = None

-----------------------------------------------------------------------------
(* C4 *)

SameRequest(c, d) == c.kind = d.kind /\ c.label = d.label /\ c.author = d.author

-----------------------------------------------------------------------------
(* C5 *)

TheKey(keys) == CHOOSE key \in keys : TRUE

\* C5: each pass of the loop appends one author entry and one work entry, whatever
\* its path, so that the finished run has one output row per input row, in order,
\* with the row's columns and the two identifiers resolved for that row.
C5_OneOutputRowPerInputRow ==
    /\ pc # "error"
    /\ Len(work_qids) = i - 1
    /\ Len(author_qids) = IF pc = "work" THEN i ELSE i - 1
    /\ pc = "done" =>
          /\ Len(out) = Len(df)
          /\ \A n \in 1..Len(df) :
                /\ out[n].row = df[n]
                /\ out[n].author_wikidata_id =
                      IF AuthorKeysOf(n) = {} THEN None ELSE FoundUnder(TheKey(AuthorKeysOf(n)))
                /\ out[n].work_wikidata_id =
                      IF WorkKeysOf(n) = {} THEN None ELSE FoundUnder(TheKey(WorkKeysOf(n)))

\* A finished run over a row with an author and a work reference and a row with
\* no author reference, no work reference and no title.
C5_Witness ==
    /\ pc = "done"
    /\ Len(out) = 2
    /\ RowAuthor(1).some /\ RowWorkViaf(1).some /\ out[1].work_wikidata_id # None
    /\ ~RowAuthor(2).some /\ WorkKeysOf(2) = {}

-----------------------------------------------------------------------------
(* C10 *)

FirstWithTitle(n) ==
    CHOOSE m \in 1..n :
        /\ TitleKeyed(m) /\ RowTitle(m) = RowTitle(n)
        /\ \A l \in 1..(m - 1) : ~(TitleKeyed(l) /\ RowTitle(l) = RowTitle(n))

\* C10: rows without a work external identifier that share a title get the same
\* work entity, the one resolved at the first of them with that row's author
\* entity; a later one sends no title query, whatever its author.
C10_TitleKeyIgnoresAuthor ==
    \A n \in WorkRows :
        TitleKeyed(n) =>
            LET first == FirstWithTitle(n)
            IN  /\ work_qids[n] = work_qids[first]
                /\ n # first =>
                      \A k \in QueryEvents : net[k].row = n => net[k].call.kind \notin TitleKinds
                /\ \A k \in QueryEvents :
                      (net[k].row = first /\ net[k].call.kind = "label+P50")
                          => net[k].call.author = author_qids[first]

\* Two rows with one title and two different resolved authors; the work entity of
\* both is the one matched with the first author.
C10_Witness ==
    /\ pc = "done"
    /\ Len(df) = 2
    /\ TitleKeyed(1) /\ TitleKeyed(2) /\ RowTitle(1) = RowTitle(2)
    /\ author_qids = <<"Q1", "Q2">>
    /\ work_qids = <<WorkOfCreator, WorkOfCreator>>

-----------------------------------------------------------------------------
(* C6, C9: title_to_wikidata *)

\* C6: with a known author, a title that matches one entity through the
\* author-constrained query and another through the type-scoped query resolves to
\* the author-matched one.
C6_AuthorMatchWins ==
    (/\ pc = "returned"
     /\ fn_in.author_qid # None
     /\ fn_out.creator # None
     /\ fn_out.short # None
     /\ fn_out.short # fn_out.creator)
        => fn_out.ret.result = fn_out.creator

\* The author-constrained and the type-scoped query have different entities.
C6_Witness ==
    /\ pc = "returned"
    /\ fn_in.author_qid = "Q1"
    /\ fn_out.creator = "Q2"
    /\ fn_out.short = "Q1"
    /\ fn_out.ret.result = "Q2"

Request(kind, label, author, qid) ==
    [kind |-> kind, label |-> label, author |-> author, qid |-> qid]

\* C9: the chain is ordered and stops at the first success: the author-constrained
\* query on the short title is sent when an author is known; the type-scoped query
\* on the short title when that was skipped or found nothing; the type-scoped
\* query on the original title when that found nothing too and the short title
\* differs from the original; the result is the first match, or absent.
C9_OrderedChain ==
    pc = "returned" =>
        LET known == fn_in.author_qid # None
            short == normalize_title(fn_in.title)
            step2 == ~known \/ fn_out.creator = None
            step3 == step2 /\ fn_out.short = None /\ short # fn_in.title
            expected ==
                (IF known
                 THEN <<Request("label+P50", Escape(short), fn_in.author_qid, fn_out.creator)>>
                 ELSE <<>>)
                \o (IF step2
                    THEN <<Request("label+type", Escape(short), None, fn_out.short)>>
                    ELSE <<>>)
                \o (IF step3
                    THEN <<Request("label+type", Escape(fn_in.title), None, fn_out.full)>>
                    ELSE <<>>)
            calls == fn_out.ret.calls
            sent == [k \in 1..Len(calls) |->
                        Request(calls[k].kind, calls[k].label, calls[k].author, calls[k].qid)]
            hits == {k \in 1..Len(sent) : sent[k].qid # None}
        IN  /\ sent = expected
            /\ hits \subseteq {Len(sent)}
            /\ fn_out.ret.result = IF hits = {} THEN None ELSE sent[Len(sent)].qid

\* All three queries sent, the last one with a match.
C9_Witness ==
    /\ pc = "returned"
    /\ Len(fn_out.ret.calls) = 3
    /\ fn_out.ret.result = "Q2"

-----------------------------------------------------------------------------
(* C7: normalize_title *)

BeforeFirstSeparator(t) ==
    LET seps == {k \in 1..Len(t) : t[k] \in Separators}
    IN  IF seps = {} THEN t
        ELSE SubSeq(t, 1, (CHOOSE m \in seps : \A n \in seps : m <= n) - 1)

\* C7, as stated: normalizing twice gives what normalizing once gives, and the
\* result is the part of the title before the first colon or semicolon with
\* trailing punctuation and whitespace trimmed (and leading blanks, which main
\* strips from a title before it is normalized).
C7_NormalizeAsStated ==
    pc = "returned" =>
        /\ normalize_title(fn_out) = fn_out
        /\ fn_out = LStrip(RStrip(BeforeFirstSeparator(fn_in), {" ", ".", ","}), {" "})

\* C7, the part that holds: normalizing twice gives what normalizing once gives.
C7_Idempotent == pc = "returned" => normalize_title(fn_out) = fn_out

-----------------------------------------------------------------------------
(* C8: extract_viaf_id *)

AllDigits(s, from, to) == \A k \in from..to : s[k] \in Digits

\* C8, as stated: a text that contains /viaf/<digits>/ gives the digits; any other
\* value gives absent.
C8_ExtractAsStated ==
    pc = "returned" =>
        LET s == fn_in.s
            found == {<<k, n>> \in (1..Len(s)) \X (1..Len(s)) :
                        /\ k + n + 1 <= Len(s)
                        /\ s[k] = "/viaf/"
                        /\ AllDigits(s, k + 1, k + n)
                        /\ s[k + n + 1] = "/"}
        IN  IF fn_in.isstr /\ found # {}
            THEN \E p \in found : fn_out = Some(SubSeq(s, p[1] + 1, p[1] + p[2]))
            ELSE fn_out = Absent

\* C8, amended: a text that contains viaf.org/viaf/<digits>, with or without a
\* slash after the digits, gives the whole run of digits of the first such place;
\* any other value (the empty string, "NA", not a string, /viaf/<digits>/ of
\* another host) gives absent.
C8_ExtractViafOrg ==
    pc = "returned" =>
        LET s == fn_in.s
            places == {k \in 1..Len(s) :
                         /\ k + 2 <= Len(s)
                         /\ s[k] = "viaf.org" /\ s[k + 1] = "/viaf/" /\ s[k + 2] \in Digits}
        IN  IF fn_in.isstr /\ places # {}
            THEN LET k == CHOOSE m \in places : \A n \in places : m <= n
                 IN  /\ fn_out.some
                     /\ \E n \in 1..Len(s) :
                           /\ k + 1 + n <= Len(s)
                           /\ AllDigits(s, k + 2, k + 1 + n)
                           /\ k + 2 + n <= Len(s) => s[k + 2 + n] \notin Digits
                           /\ fn_out.val = SubSeq(s, k + 2, k + 1 + n)
            ELSE fn_out = Absent

\* A reference that does not start with the host and has no slash after the digits.
C8_Witness ==
    /\ pc = "returned"
    /\ fn_in.isstr
    /\ Len(fn_in.s) = 4
    /\ fn_in.s[1] = "x"
    /\ fn_in.s[4] = "1"
    /\ fn_out = Some(<<"1">>)

====
